---- MODULE Spec2Model ----
(***************************************************************************)
(* Model of devops/tasks/orchlib/aws.py: the EC2 / Route 53 orchestration  *)
(* functions create_instance, list_instances, terminate_instances and      *)
(* register_dns, run by one synchronous caller against a provider whose    *)
(* instance states and DNS change statuses advance on their own.           *)
(*                                                                         *)
(* Each provider round trip (and each time.sleep) is one step of the       *)
(* caller; the provider's own transitions interleave between the steps.    *)
(*                                                                         *)
(* Model of learning_observer/prestartup.py: the registries of startup      *)
(* checks and init functions and the function that runs them.              *)
(***************************************************************************)
EXTENDS Integers, Sequences, FiniteSets, TLC

VARIABLES
    ec2,        \* provider: sequence of instance records, index = creation order
    zones,      \* provider: sequence of hosted zones [Id, Name]
    changes,    \* provider: sequence of accepted change batches, index = change Id
    dns,        \* provider: set of resource record sets currently in the zones
    pc,         \* caller: position in the running function
    op,         \* caller: the running (or last finished) call [name, args]
    rd,         \* caller: arguments of the running register_dns frame
    zoneId,     \* caller: register_dns local zoneId
    request,    \* caller: register_dns local request (its ChangeInfo)
    instance,   \* caller: create_instance local instance (its instance_id)
    matching,   \* caller: terminate_instances local matching_instances
    i,          \* caller: terminate_instances countdown variable i
    m,          \* caller: index of the for loop over matching_instances
    calls,      \* history: provider calls and sleeps of the running / last call
    hist,       \* history: finished calls with their outcome
    other,      \* a second caller of aws.py: its name and its frame while the
                \* first-named variables above hold the frame of the caller that runs
    STARTUP_CHECKS,     \* prestartup: module global, the registered checks
    INIT_FUNCTIONS,     \* prestartup: module global, the registered init functions
    STARTUP_RAN,        \* prestartup: module global flag
    spc,                \* prestartup: position in startup_checks_and_init
    cursor,             \* prestartup: position of the running for loop in its list
    local_STARTUP_RAN,  \* prestartup: the name STARTUP_RAN local to startup_checks_and_init
    ran,                \* history: functions the running startup has called
    regs,               \* history: calls of the two register functions
    startups            \* history: finished startup_checks_and_init calls

aws == <<ec2, zones, changes, dns, pc, op, rd, zoneId, request, instance,
         matching, i, m, calls, hist, other>>

prestartup == <<STARTUP_CHECKS, INIT_FUNCTIONS, STARTUP_RAN, spc, cursor,
                local_STARTUP_RAN, ran, regs, startups>>

vars == <<aws, prestartup>>

provider == <<ec2, zones, changes, dns>>
locals == <<rd, zoneId, request, instance, matching, i, m>>

-----------------------------------------------------------------------------
(* Bounds of the model *)

\* number of calls the caller makes in one behaviour
MaxOps == 2
\* get_change polls whose log entries are kept per register_dns call
MaxPolls == 2
\* calls of the register functions made by other modules in one behaviour
MaxRegistrations == 2
\* calls of startup_checks_and_init in one behaviour
MaxStartups == 2

-----------------------------------------------------------------------------
(* Program constants *)

DEPLOY_GROUP == "learning-observer"
NO_ADDRESS == "--.--.--.--"
TERMINATE_DOMAIN == "learning-observer.org"
RECORD_TYPE == "A"
TTL == 15
\* a countdown one second short
ShortCountdown == 10 - 1
COUNTDOWN == 10
SLEEP_SECONDS == 1

\* a key that a provider record does not carry (dict.get falls to its default)
Absent == "<absent>"
None == "<None>"

Names == {"alice", "dup"}
Domains == {"example.org", TERMINATE_DOMAIN}

\* subdomain and address pairs handed to register_dns
RegisterInputs == { <<"alice", "198.51.100.1">>, <<"dup", "198.51.100.7">> }

Range(s) == {s[n] : n \in DOMAIN s}
Last(s) == s[Len(s)]

-----------------------------------------------------------------------------
(* Provider side: EC2 *)

Tags(name) ==
    << [Key |-> "Name", Value |-> name],
       [Key |-> "Owner", Value |-> "owner"],
       [Key |-> "deploy-group", Value |-> DEPLOY_GROUP] >>

Address(n) == "198.51.100." \o ToString(n)

\* the filter of describe_instances: tag:deploy-group with the given values
FilterMatches(inst, filter) ==
    \E t \in Range(inst.Tags) :
        /\ "tag:" \o t.Key = filter.Name
        /\ t.Value \in Range(filter.Values)

\* an answer that leaves out the instances that are terminated or on their way
DescribeLiveInstances(filter) ==
    LET live(x) == x.State \notin {"shutting-down", "terminated"}
        group(r) == [Instances |->
                        SelectSeq(ec2, LAMBDA x : /\ x.Rid = r
                                                  /\ FilterMatches(x, filter)
                                                  /\ live(x))]
        all == [r \in 1..Len(ec2) |-> group(r)]
    IN  [Reservations |-> SelectSeq(all, LAMBDA g : g.Instances # <<>>)]

\* the provider's answer: the matching instances grouped by reservation
DescribeInstancesResponse(filter) ==
    LET group(r) == [Instances |->
                        SelectSeq(ec2, LAMBDA x : x.Rid = r /\ FilterMatches(x, filter))]
        all == [r \in 1..Len(ec2) |-> group(r)]
    IN  [Reservations |-> SelectSeq(all, LAMBDA g : g.Instances # <<>>)]

\* a running instance is handed its public address (AssociatePublicIpAddress)
ProviderRun(n) ==
    /\ ec2[n].State = "pending"
    /\ ec2' = [ec2 EXCEPT ![n].State = "running", ![n].PublicIpAddress = Address(n)]
    /\ UNCHANGED <<zones, changes, dns, pc, op, locals, calls, hist>>

\* a provider that terminates a running instance nobody asked it to terminate
ProviderTerminatedUnasked(n) ==
    /\ ec2[n].State = "running"
    /\ ec2' = [ec2 EXCEPT ![n].State = "terminated", ![n].PublicIpAddress = Absent]
    /\ UNCHANGED <<zones, changes, dns, pc, op, locals, calls, hist>>

\* an instance asked to terminate reaches the terminated state and loses its address
ProviderTerminated(n) ==
    /\ ec2[n].State = "shutting-down"
    /\ ec2' = [ec2 EXCEPT ![n].State = "terminated", ![n].PublicIpAddress = Absent]
    /\ UNCHANGED <<zones, changes, dns, pc, op, locals, calls, hist>>

\* the provider's effect of terminate_instances(InstanceIds=ids)
TerminateRequested(instances, ids) ==
    [n \in DOMAIN instances |->
        IF instances[n].InstanceId \in Range(ids) /\ instances[n].State # "terminated"
        THEN [instances[n] EXCEPT !.State = "shutting-down"]
        ELSE instances[n]]

-----------------------------------------------------------------------------
(* Provider side: Route 53 *)

ListHostedZonesResponse(domain) ==
    [HostedZones |-> SelectSeq(zones, LAMBDA z : z.Name = domain)]

\* the record sets after a change batch has been applied to a zone
ApplyChange(records, zone, change) ==
    LET rrs == change.ResourceRecordSet
        same(r) == r.Zone = zone /\ r.Name = rrs.Name /\ r.Type = rrs.Type
        new == [Zone |-> zone, Name |-> rrs.Name, Type |-> rrs.Type,
                TTL |-> rrs.TTL, Values |-> rrs.ResourceRecords]
    IN  IF change.Action = "UPSERT"
        THEN {r \in records : ~same(r)} \cup {new}
        ELSE records \ {new}

RECURSIVE ApplyBatch(_, _, _)
ApplyBatch(records, zone, batch) ==
    IF batch = <<>> THEN records
    ELSE ApplyBatch(ApplyChange(records, zone, Head(batch)), zone, Tail(batch))

\* a get_change that answers with the status of the first change, whatever the id
GetChangeOfFirst(id) ==
    [ChangeInfo |-> [Id |-> id, Status |-> changes[1].Status]]

GetChangeResponse(id) ==
    [ChangeInfo |-> [Id |-> id, Status |-> changes[id].Status]]

\* DNS propagation: a pending change becomes INSYNC.  The status of a change is
\* visible to the program only through get_change on the change of the running
\* register_dns call, so only that change's propagation is a step of the model.
ProviderSync(c) ==
    /\ changes[c].Status = "PENDING"
    /\ pc = "get_change"
    /\ request.ChangeInfo.Id = c
    /\ changes' = [changes EXCEPT ![c].Status = "INSYNC"]
    /\ UNCHANGED <<ec2, zones, dns, pc, op, locals, calls, hist>>

-----------------------------------------------------------------------------
(* Caller: bookkeeping shared by the functions *)

\* Every variable keeps one shape in all states, so a local that holds nothing
\* holds a record of its own shape.
NoArgs == [none |-> TRUE]
NoResult == [none |-> TRUE]
NoCall == [name |-> "", args |-> NoArgs]
NoFrame == [subdomain |-> "", domain |-> "", ip |-> "", unregister |-> FALSE]
NoRequest == [ChangeInfo |-> [Id |-> 0, Status |-> ""]]
NoInstance == 0

\* a provider call (or sleep) that came back, with its keyword arguments and
\* its answer, and one that raised
Call(api, arg, res) == [api |-> api, ok |-> TRUE, arg |-> arg, res |-> res]
Failed(api) == [api |-> api, ok |-> FALSE, arg |-> NoArgs, res |-> NoResult]

NoLocals ==
    /\ rd' = NoFrame
    /\ zoneId' = None
    /\ request' = NoRequest
    /\ instance' = NoInstance
    /\ matching' = <<>>
    /\ i' = 0
    /\ m' = 0

\* the running call ends: by a return or by an exception reaching the caller
Finish(kind, value) ==
    /\ pc' = "idle"
    /\ hist' = Append(hist, [op |-> op, kind |-> kind, value |-> value])
    /\ NoLocals
    /\ UNCHANGED op

-----------------------------------------------------------------------------
(* register_dns(subdomain, domain, ip, unregister=False) *)

Action(unregister) == IF unregister THEN "DELETE" ELSE "UPSERT"

\* the record name without its trailing dot
RecordNameNoDot(subdomain, domain) == subdomain \o "." \o domain

RecordName(subdomain, domain) == subdomain \o "." \o domain \o "."

ChangeBatch(subdomain, domain, ip, unregister) ==
    [Changes |-> <<
        [Action |-> Action(unregister),
         ResourceRecordSet |->
            [Name |-> RecordName(subdomain, domain),
             Type |-> RECORD_TYPE,
             TTL |-> TTL,
             ResourceRecords |-> << [Value |-> ip] >>]] >>]

\* the zone test rejecting only an empty answer
NoHostedZone(hostedZones) == Len(hostedZones) = 0

WrongNumberOfZones(hostedZones) == Len(hostedZones) # 1

\* the loop condition with the test of unregister inverted
PropagatingInverted(unregister) == TRUE /\ unregister

\* `while True and not unregister`
Propagating(unregister) == TRUE /\ ~unregister

\* a loop that breaks after its first poll, whatever the status
AnyStatus(req) == TRUE

\* `if request['ChangeInfo']['Status'] == 'INSYNC': break`
InSync(req) == req.ChangeInfo.Status = "INSYNC"

\* the get_change calls the running register_dns frame has logged
Polls == Cardinality({n \in DOMAIN calls : calls[n].api = "get_change"})

\* a loop that hands every delete the address of the first match
ForMatchingFirst(k) ==
    IF k <= Len(matching)
    THEN /\ m' = k
         /\ rd' = [subdomain |-> op.args.name,
                   domain |-> TERMINATE_DOMAIN,
                   ip |-> matching[1].PublicIpAddress,
                   unregister |-> TRUE]
         /\ pc' = "list_hosted_zones_by_name"
    ELSE /\ m' = k
         /\ rd' = NoFrame
         /\ pc' = "terminate_instances"

\* `for instance in matching_instances:` reaching its k-th element, or its end
ForMatching(k) ==
    IF k <= Len(matching)
    THEN /\ m' = k
         /\ rd' = [subdomain |-> op.args.name,
                   domain |-> TERMINATE_DOMAIN,
                   ip |-> matching[k].PublicIpAddress,
                   unregister |-> TRUE]
         /\ pc' = "list_hosted_zones_by_name"
    ELSE /\ m' = k
         /\ rd' = NoFrame
         /\ pc' = "terminate_instances"

\* register_dns returns True to whoever called it
RegisterReturn ==
    IF op.name = "terminate_instances"
    THEN /\ ForMatching(m + 1)
         /\ zoneId' = None
         /\ request' = NoRequest
         /\ UNCHANGED <<op, instance, matching, i, hist>>
    ELSE Finish("return", [bool |-> TRUE])

RegisterZones ==
    /\ pc = "list_hosted_zones_by_name"
    /\ LET hostedZones == ListHostedZonesResponse(rd.domain).HostedZones
       IN  /\ calls' = Append(calls,
                  Call("list_hosted_zones_by_name", [DNSName |-> rd.domain],
                       ListHostedZonesResponse(rd.domain)))
           /\ IF WrongNumberOfZones(hostedZones)
              THEN Finish("raise", [message |-> "Wrong number of hosted zones!"])
              ELSE /\ zoneId' = hostedZones[1].Id
                   /\ pc' = "change_resource_record_sets"
                   /\ UNCHANGED <<op, rd, request, instance, matching, i, m, hist>>
    /\ UNCHANGED provider

RegisterChange ==
    /\ pc = "change_resource_record_sets"
    /\ LET batch == ChangeBatch(rd.subdomain, rd.domain, rd.ip, rd.unregister)
           id == Len(changes) + 1
           response == [ChangeInfo |-> [Id |-> id, Status |-> "PENDING"]]
       IN  /\ changes' = Append(changes,
                  [HostedZoneId |-> zoneId, ChangeBatch |-> batch, Status |-> "PENDING"])
           /\ dns' = ApplyBatch(dns, zoneId, batch.Changes)
           /\ calls' = Append(calls,
                  Call("change_resource_record_sets",
                       [HostedZoneId |-> zoneId, ChangeBatch |-> batch], response))
           /\ IF Propagating(rd.unregister)
              THEN /\ request' = response
                   /\ pc' = "get_change"
                   /\ UNCHANGED <<op, rd, zoneId, instance, matching, i, m, hist>>
              ELSE RegisterReturn
    /\ UNCHANGED <<ec2, zones>>

\* one turn of the loop: sleep(1), get_change(Id=id), test the status
RegisterPoll ==
    /\ pc = "get_change"
    /\ LET id == request.ChangeInfo.Id
           response == GetChangeResponse(id)
       IN  /\ calls' = IF Polls < MaxPolls \/ InSync(response)
                       THEN calls \o << Call("sleep", [seconds |-> SLEEP_SECONDS], NoResult),
                                        Call("get_change", [Id |-> id], response) >>
                       ELSE calls
           /\ IF InSync(response)
              THEN RegisterReturn
              ELSE /\ request' = response
                   /\ UNCHANGED <<pc, op, rd, zoneId, instance, matching, i, m, hist>>
    /\ UNCHANGED provider

StartRegisterDns(subdomain, domain, ip, unregister) ==
    /\ pc = "idle"
    /\ op' = [name |-> "register_dns",
              args |-> [subdomain |-> subdomain, domain |-> domain,
                        ip |-> ip, unregister |-> unregister]]
    /\ rd' = [subdomain |-> subdomain, domain |-> domain,
              ip |-> ip, unregister |-> unregister]
    /\ pc' = "list_hosted_zones_by_name"
    /\ calls' = <<>>
    /\ UNCHANGED <<provider, zoneId, request, instance, matching, i, m, hist>>

-----------------------------------------------------------------------------
(* create_instance(name) *)

\* a wait that comes back in whatever state the instance is
AnyState(inst) == TRUE

\* `instance.wait_until_running()` comes back
Running(inst) == inst.State = "running"

\* the attributes of the reloaded instance object, as the caller reads them
Loaded(inst) ==
    [instance_id |-> inst.InstanceId,
     state |-> inst.State,
     public_ip_address |->
        IF inst.PublicIpAddress = Absent THEN None ELSE inst.PublicIpAddress]

StartCreateInstance(name) ==
    /\ pc = "idle"
    /\ op' = [name |-> "create_instance", args |-> [name |-> name]]
    /\ pc' = "create_instances"
    /\ calls' = <<>>
    /\ UNCHANGED <<provider, locals, hist>>

CreateInstances ==
    /\ pc = "create_instances"
    /\ LET id == Len(ec2) + 1
           new == [InstanceId |-> id, Rid |-> id, Tags |-> Tags(op.args.name),
                   State |-> "pending", PublicIpAddress |-> Absent]
       IN  /\ ec2' = Append(ec2, new)
           /\ instance' = id
           /\ calls' = Append(calls,
                  Call("create_instances", [Tags |-> Tags(op.args.name)],
                       [instance_id |-> id]))
    /\ pc' = "wait_until_running"
    /\ UNCHANGED <<zones, changes, dns, op, rd, zoneId, request, matching, i, m, hist>>

CreateWait ==
    /\ pc = "wait_until_running"
    /\ Running(ec2[instance])
    /\ calls' = Append(calls,
           Call("wait_until_running", [instance_id |-> instance], NoResult))
    /\ pc' = "Instance"
    /\ UNCHANGED <<provider, op, locals, hist>>

CreateReload ==
    /\ pc = "Instance"
    /\ calls' = Append(calls,
           Call("Instance", [instance_id |-> instance], Loaded(ec2[instance])))
    /\ Finish("return", [instance |-> Loaded(ec2[instance])])
    /\ UNCHANGED provider

-----------------------------------------------------------------------------
(* list_instances() *)

Filters == << [Name |-> "tag:deploy-group", Values |-> <<DEPLOY_GROUP>>] >>

\* `sum(lists, start)`
RECURSIVE Sum(_, _)
Sum(lists, start) ==
    IF lists = <<>> THEN start ELSE Sum(Tail(lists), start \o Head(lists))

\* `{tag['Key']: tag['Value'] for tag in i['Tags']}`: a later tag overwrites
TagDict(tags) ==
    [k \in {t.Key : t \in Range(tags)} |->
        LET n == CHOOSE x \in DOMAIN tags :
                    /\ tags[x].Key = k
                    /\ \A y \in DOMAIN tags : tags[y].Key = k => y <= x
        IN  tags[n].Value]

\* `i.get('PublicIpAddress')`, without the default
GetNoDefault(inst) ==
    IF inst.PublicIpAddress = Absent THEN None ELSE inst.PublicIpAddress

\* `i.get('PublicIpAddress', "--.--.--.--")`
GetPublicIpAddress(inst) ==
    IF inst.PublicIpAddress = Absent THEN NO_ADDRESS ELSE inst.PublicIpAddress

Summary(inst) ==
    [InstanceId |-> inst.InstanceId,
     Tags |-> TagDict(inst.Tags),
     PublicIpAddress |-> GetPublicIpAddress(inst)]

Instances(reservations) ==
    Sum([r \in DOMAIN reservations |-> reservations[r].Instances], <<>>)

\* the value list_instances() returns in the current provider state
list_instances ==
    LET reservations == DescribeInstancesResponse(Filters[1]).Reservations
        instances == Instances(reservations)
    IN  [n \in DOMAIN instances |-> Summary(instances[n])]

StartListInstances ==
    /\ pc = "idle"
    /\ op' = [name |-> "list_instances", args |-> NoArgs]
    /\ pc' = "describe_instances"
    /\ calls' = <<>>
    /\ UNCHANGED <<provider, locals, hist>>

ListInstances ==
    /\ pc = "describe_instances"
    /\ op.name = "list_instances"
    /\ calls' = Append(calls,
           Call("describe_instances", [Filters |-> Filters],
                DescribeInstancesResponse(Filters[1])))
    /\ Finish("return", [summary |-> list_instances])
    /\ UNCHANGED provider

-----------------------------------------------------------------------------
(* terminate_instances(name) *)

\* `[i for i in instances if i['Tags']['Name'] == name]`
MatchingInstances(instances, name) ==
    SelectSeq(instances, LAMBDA x : x.Tags["Name"] = name)

\* the id list cut to the first match
FirstInstanceId(matching_instances) ==
    IF matching_instances = <<>> THEN <<>>
    ELSE << matching_instances[1].InstanceId >>

\* `[i['InstanceId'] for i in matching_instances]`
InstanceIds(matching_instances) ==
    [k \in DOMAIN matching_instances |-> matching_instances[k].InstanceId]

StartTerminateInstances(name) ==
    /\ pc = "idle"
    /\ op' = [name |-> "terminate_instances", args |-> [name |-> name]]
    /\ pc' = "describe_instances"
    /\ calls' = <<>>
    /\ UNCHANGED <<provider, locals, hist>>

TerminateList ==
    /\ pc = "describe_instances"
    /\ op.name = "terminate_instances"
    /\ calls' = Append(calls,
           Call("describe_instances", [Filters |-> Filters],
                DescribeInstancesResponse(Filters[1])))
    /\ matching' = MatchingInstances(list_instances, op.args.name)
    /\ i' = 0
    /\ pc' = "sleep"
    /\ UNCHANGED <<provider, op, rd, zoneId, request, instance, m, hist>>

\* `for i in range(10): ... time.sleep(1)`, then the head of the DNS loop
TerminateSleep ==
    /\ pc = "sleep"
    /\ i < COUNTDOWN
    /\ calls' = Append(calls, Call("sleep", [seconds |-> SLEEP_SECONDS], NoResult))
    /\ i' = i + 1
    /\ IF i + 1 < COUNTDOWN
       THEN UNCHANGED <<pc, rd, m>>
       ELSE ForMatching(1)
    /\ UNCHANGED <<provider, op, zoneId, request, instance, matching, hist>>

\* a terminate request made from a fresh reading of the inventory
TerminateCallFresh ==
    /\ pc = "terminate_instances"
    /\ LET ids == InstanceIds(MatchingInstances(list_instances, op.args.name))
       IN  /\ ec2' = TerminateRequested(ec2, ids)
           /\ calls' = Append(calls,
                  Call("terminate_instances", [InstanceIds |-> ids], NoResult))
    /\ Finish("return", [count |-> Len(matching)])
    /\ UNCHANGED <<zones, changes, dns>>

TerminateCall ==
    /\ pc = "terminate_instances"
    /\ LET ids == InstanceIds(matching)
       IN  /\ ec2' = TerminateRequested(ec2, ids)
           /\ calls' = Append(calls,
                  Call("terminate_instances", [InstanceIds |-> ids], NoResult))
    /\ Finish("return", [count |-> Len(matching)])
    /\ UNCHANGED <<zones, changes, dns>>

-----------------------------------------------------------------------------
(* name_to_group(machine_name) *)

\* `" ".join(strings)`
RECURSIVE Join(_)
Join(strings) ==
    IF strings = <<>> THEN ""
    ELSE IF Len(strings) = 1 THEN strings[1]
    ELSE strings[1] \o " " \o Join(Tail(strings))

\* the pool string: the addresses of the summaries that carry the name
Pool(instances, machine_name) ==
    LET named == SelectSeq(instances, LAMBDA x : x.Tags["Name"] = machine_name)
    IN  Join([k \in DOMAIN named |-> named[k].PublicIpAddress])

StartNameToGroup(machine_name) ==
    /\ pc = "idle"
    /\ op' = [name |-> "name_to_group", args |-> [machine_name |-> machine_name]]
    /\ pc' = "describe_instances"
    /\ calls' = <<>>
    /\ UNCHANGED <<provider, locals, hist>>

\* the list_instances() call, the pool string, and the group made of it
NameToGroup ==
    /\ pc = "describe_instances"
    /\ op.name = "name_to_group"
    /\ calls' = Append(calls,
           Call("describe_instances", [Filters |-> Filters],
                DescribeInstancesResponse(Filters[1])))
    /\ Finish("return", [pool |-> Pool(list_instances, op.args.machine_name)])
    /\ UNCHANGED provider

-----------------------------------------------------------------------------
(* Any provider call may fail; the exception reaches the caller unmodified *)

ProviderCalls ==
    {"create_instances", "wait_until_running", "Instance", "describe_instances",
     "terminate_instances", "list_hosted_zones_by_name",
     "change_resource_record_sets", "get_change"}

\* a terminate_instances that goes on to the next match when a DNS call fails
ProviderErrorSwallowed ==
    /\ pc \in ProviderCalls
    /\ calls' = Append(calls, Failed(pc))
    /\ IF /\ op.name = "terminate_instances"
          /\ pc \in {"list_hosted_zones_by_name", "change_resource_record_sets"}
       THEN RegisterReturn
       ELSE Finish("raise", [message |-> "ProviderError"])
    /\ UNCHANGED provider

\* a terminate request that fails after the provider has acted on it
ProviderErrorApplied ==
    /\ pc \in ProviderCalls
    /\ calls' = Append(calls, Failed(pc))
    /\ Finish("raise", [message |-> "ProviderError"])
    /\ ec2' = IF pc = "terminate_instances"
              THEN TerminateRequested(ec2, InstanceIds(matching))
              ELSE ec2
    /\ UNCHANGED <<zones, changes, dns>>

ProviderError ==
    /\ pc \in ProviderCalls
    /\ calls' = Append(calls, Failed(pc))
    /\ Finish("raise", [message |-> "ProviderError"])
    /\ UNCHANGED provider

-----------------------------------------------------------------------------
(* prestartup.py: register_startup_check, register_init_function and        *)
(* startup_checks_and_init.  A function is known by its name; whether a     *)
(* check or an init function raises depends on the file system and the      *)
(* settings, so either outcome is possible each time it is called.          *)

\* the checks prestartup.py registers itself, by decorator, when it is imported
OwnChecks ==
    << "make_blank_dirs", "validate_teacher_list", "validate_config_file",
       "download_3rd_party_static", "check_aio_session_settings" >>

\* functions other modules register
ModuleFunctions == {"module_f", "module_g"}

\* the module globals once prestartup.py has been imported
PrestartupLoaded ==
    /\ STARTUP_CHECKS = OwnChecks
    /\ INIT_FUNCTIONS = <<>>
    /\ STARTUP_RAN = FALSE
    /\ spc = "idle"
    /\ cursor = 0
    /\ local_STARTUP_RAN = FALSE
    /\ ran = <<>>
    /\ regs = <<>>
    /\ startups = <<>>

\* a startup_checks_and_init call has returned before now
Completed == \E n \in DOMAIN startups : startups[n].kind = "return"

Registration(fn, into, kind) ==
    [fn |-> fn, into |-> into, kind |-> kind, after |-> Completed]

register_startup_check(check) ==
    /\ spc = "idle"
    /\ Len(regs) < MaxRegistrations
    /\ IF STARTUP_RAN
       THEN /\ regs' = Append(regs, Registration(check, "STARTUP_CHECKS", "raise"))
            /\ UNCHANGED STARTUP_CHECKS
       ELSE /\ STARTUP_CHECKS' = Append(STARTUP_CHECKS, check)
            /\ regs' = Append(regs, Registration(check, "STARTUP_CHECKS", "return"))
    /\ UNCHANGED <<INIT_FUNCTIONS, STARTUP_RAN, spc, cursor, local_STARTUP_RAN,
                   ran, startups>>
    /\ UNCHANGED aws

register_init_function(init) ==
    /\ spc = "idle"
    /\ Len(regs) < MaxRegistrations
    /\ IF STARTUP_RAN
       THEN /\ regs' = Append(regs, Registration(init, "INIT_FUNCTIONS", "raise"))
            /\ UNCHANGED INIT_FUNCTIONS
       ELSE /\ INIT_FUNCTIONS' = Append(INIT_FUNCTIONS, init)
            /\ regs' = Append(regs, Registration(init, "INIT_FUNCTIONS", "return"))
    /\ UNCHANGED <<STARTUP_CHECKS, STARTUP_RAN, spc, cursor, local_STARTUP_RAN,
                   ran, startups>>
    /\ UNCHANGED aws

\* the entry of the log for one function called by the running startup
Ran(fn, list, outcome) == [fn |-> fn, list |-> list, outcome |-> outcome]

\* the running startup_checks_and_init call ends
StartupFinish(kind, log) ==
    /\ startups' = Append(startups,
           [kind |-> kind, ran |-> log,
            checks |-> STARTUP_CHECKS, inits |-> INIT_FUNCTIONS])
    /\ spc' = "idle"
    /\ cursor' = 0
    /\ ran' = <<>>

\* startup_checks_and_init() is called: its first for loop begins
StartupBegin ==
    /\ spc = "idle"
    /\ Len(startups) < MaxStartups
    /\ spc' = "checks"
    /\ cursor' = 1
    /\ ran' = <<>>
    /\ local_STARTUP_RAN' = FALSE
    /\ UNCHANGED <<STARTUP_CHECKS, INIT_FUNCTIONS, STARTUP_RAN, regs, startups>>
    /\ UNCHANGED aws

\* a loop over the checks that goes on after a check has raised
RunCheckAll ==
    /\ spc = "checks"
    /\ IF cursor <= Len(STARTUP_CHECKS)
       THEN /\ \E outcome \in {"return", "raise"} :
                  ran' = Append(ran, Ran(STARTUP_CHECKS[cursor], "STARTUP_CHECKS", outcome))
            /\ cursor' = cursor + 1
            /\ UNCHANGED <<spc, startups>>
       ELSE /\ spc' = "inits"
            /\ cursor' = 1
            /\ UNCHANGED <<ran, startups>>
    /\ UNCHANGED <<STARTUP_CHECKS, INIT_FUNCTIONS, STARTUP_RAN, local_STARTUP_RAN, regs>>
    /\ UNCHANGED aws

\* `for check in STARTUP_CHECKS: check()`: one turn, or the end of the loop
RunCheck ==
    /\ spc = "checks"
    /\ IF cursor <= Len(STARTUP_CHECKS)
       THEN \/ /\ ran' = Append(ran, Ran(STARTUP_CHECKS[cursor], "STARTUP_CHECKS", "return"))
               /\ cursor' = cursor + 1
               /\ UNCHANGED <<spc, startups>>
            \/ StartupFinish("raise",
                   Append(ran, Ran(STARTUP_CHECKS[cursor], "STARTUP_CHECKS", "raise")))
       ELSE /\ spc' = "inits"
            /\ cursor' = 1
            /\ UNCHANGED <<ran, startups>>
    /\ UNCHANGED <<STARTUP_CHECKS, INIT_FUNCTIONS, STARTUP_RAN, local_STARTUP_RAN, regs>>
    /\ UNCHANGED aws

\* `for init in INIT_FUNCTIONS: init()`: one turn, or the end of the loop, the
\* assignment `STARTUP_RAN = True` and the return.  The function has no
\* `global STARTUP_RAN` statement, so the assignment binds a name local to
\* the function and the module global keeps its value.
RunInit ==
    /\ spc = "inits"
    /\ IF cursor <= Len(INIT_FUNCTIONS)
       THEN /\ \/ /\ ran' = Append(ran, Ran(INIT_FUNCTIONS[cursor], "INIT_FUNCTIONS", "return"))
                  /\ cursor' = cursor + 1
                  /\ UNCHANGED <<spc, startups>>
               \/ StartupFinish("raise",
                      Append(ran, Ran(INIT_FUNCTIONS[cursor], "INIT_FUNCTIONS", "raise")))
            /\ UNCHANGED local_STARTUP_RAN
       ELSE /\ local_STARTUP_RAN' = TRUE
            /\ StartupFinish("return", ran)
    /\ UNCHANGED <<STARTUP_CHECKS, INIT_FUNCTIONS, STARTUP_RAN, regs>>
    /\ UNCHANGED aws

-----------------------------------------------------------------------------
(* Initial states: hosted zones and instances left by earlier runs *)

Inst(id, rid, name, group, state) ==
    [InstanceId |-> id, Rid |-> rid,
     Tags |-> << [Key |-> "Name", Value |-> name],
                 [Key |-> "Owner", Value |-> "owner"],
                 [Key |-> "deploy-group", Value |-> group] >>,
     State |-> state,
     PublicIpAddress |-> IF state = "running" THEN Address(id) ELSE Absent]

InitInstances0 == << >>

InitInstances1 == << Inst(1, 1, "alice", DEPLOY_GROUP, "running") >>

InitInstances2 ==
    << Inst(1, 2, "dup", DEPLOY_GROUP, "running"),
       Inst(2, 1, "alice", DEPLOY_GROUP, "terminated"),
       Inst(3, 2, "dup", DEPLOY_GROUP, "stopped"),
       Inst(4, 3, "dup", "another-deployment", "running") >>

ZoneLO1 == [Id |-> "/hostedzone/Z1", Name |-> TERMINATE_DOMAIN]
ZoneLO2 == [Id |-> "/hostedzone/Z2", Name |-> TERMINATE_DOMAIN]
ZoneEX == [Id |-> "/hostedzone/Z3", Name |-> "example.org"]

ZonesNone == <<ZoneEX>>
ZonesOne == <<ZoneLO1, ZoneEX>>
ZonesTwo == <<ZoneLO1, ZoneEX, ZoneLO2>>

InitProvider ==
    { <<InitInstances0, ZonesOne>>, <<InitInstances1, ZonesOne>>,
      <<InitInstances2, ZonesOne>>, <<InitInstances1, ZonesNone>>,
      <<InitInstances2, ZonesTwo>> }

\* the frame of a caller that has called nothing yet
IdleFrame(caller) ==
    [caller |-> caller, pc |-> "idle", op |-> NoCall, rd |-> NoFrame,
     zoneId |-> None, request |-> NoRequest, instance |-> NoInstance,
     matching |-> <<>>, i |-> 0, m |-> 0, calls |-> <<>>, hist |-> <<>>]

\* nothing is running and nothing has been called
InitCaller ==
    /\ other = IdleFrame("B")
    /\ pc = "idle"
    /\ op = NoCall
    /\ rd = NoFrame
    /\ zoneId = None
    /\ request = NoRequest
    /\ instance = NoInstance
    /\ matching = <<>>
    /\ i = 0
    /\ m = 0
    /\ calls = <<>>
    /\ hist = <<>>

Init ==
    /\ \E p \in InitProvider : ec2 = p[1] /\ zones = p[2]
    /\ changes = <<>>
    /\ dns = {}
    /\ InitCaller
    /\ PrestartupLoaded

\* a step of aws.py leaves the rest of the model as it is
Elsewhere == UNCHANGED <<prestartup, other>>

\* the caller begins one of the functions, with any of the inputs
Start ==
    \/ \E name \in Names : StartCreateInstance(name) /\ Elsewhere
    \/ StartListInstances /\ Elsewhere
    \/ \E name \in Names \cup {"ghost"} : StartTerminateInstances(name) /\ Elsewhere
    \/ \E name \in Names : StartNameToGroup(name) /\ Elsewhere
    \/ /\ \E r \in RegisterInputs, d \in Domains, u \in BOOLEAN :
             StartRegisterDns(r[1], d, r[2], u)
       /\ Elsewhere

\* a step of the function that is running
Step ==
    \/ CreateInstances /\ Elsewhere
    \/ CreateWait /\ Elsewhere
    \/ CreateReload /\ Elsewhere
    \/ ListInstances /\ Elsewhere
    \/ NameToGroup /\ Elsewhere
    \/ TerminateList /\ Elsewhere
    \/ TerminateSleep /\ Elsewhere
    \/ TerminateCall /\ Elsewhere
    \/ RegisterZones /\ Elsewhere
    \/ RegisterChange /\ Elsewhere
    \/ RegisterPoll /\ Elsewhere
    \/ ProviderError /\ Elsewhere

Provider ==
    \/ \E n \in DOMAIN ec2 : ProviderRun(n) /\ Elsewhere
    \/ \E n \in DOMAIN ec2 : ProviderTerminated(n) /\ Elsewhere
    \/ \E c \in DOMAIN changes : ProviderSync(c) /\ Elsewhere

Next ==
    \/ Len(hist) < MaxOps /\ Start
    \/ Step
    \/ Provider

Spec == Init /\ [][Next]_vars

\* The caller's loop keeps running and the provider propagates every change it
\* is asked about: the fairness under which register_dns is expected to return.
LiveSpec ==
    /\ Spec
    /\ WF_vars(RegisterPoll /\ Elsewhere)
    /\ WF_vars((\E c \in DOMAIN changes : ProviderSync(c)) /\ Elsewhere)

-----------------------------------------------------------------------------
(* The end-to-end run: create "alice", list, register its address under     *)
(* example.org, terminate "alice"; each call begins once the one before it  *)
(* has returned.                                                           *)

E2EInit ==
    /\ ec2 \in {InitInstances0, << Inst(1, 1, "dup", DEPLOY_GROUP, "running") >>}
    /\ zones \in {ZonesNone, ZonesOne, ZonesTwo}
    /\ changes = <<>>
    /\ dns = {}
    /\ InitCaller
    /\ PrestartupLoaded

E2EStart ==
    \/ /\ Len(hist) = 0
       /\ StartCreateInstance("alice")
       /\ Elsewhere
    \/ /\ Len(hist) = 1 /\ hist[1].kind = "return"
       /\ StartListInstances
       /\ Elsewhere
    \/ /\ Len(hist) = 2 /\ hist[2].kind = "return"
       /\ StartRegisterDns("alice", "example.org",
                           hist[1].value.instance.public_ip_address, FALSE)
       /\ Elsewhere
    \/ /\ Len(hist) = 3 /\ hist[3].kind = "return"
       /\ StartTerminateInstances("alice")
       /\ Elsewhere

\* the steps of the four functions the run calls
E2EStep ==
    \/ CreateInstances /\ Elsewhere
    \/ CreateWait /\ Elsewhere
    \/ CreateReload /\ Elsewhere
    \/ ListInstances /\ Elsewhere
    \/ TerminateList /\ Elsewhere
    \/ TerminateSleep /\ Elsewhere
    \/ TerminateCall /\ Elsewhere
    \/ RegisterZones /\ Elsewhere
    \/ RegisterChange /\ Elsewhere
    \/ RegisterPoll /\ Elsewhere
    \/ ProviderError /\ Elsewhere

E2ENext ==
    \/ E2EStart
    \/ E2EStep
    \/ Provider

E2ESpec == E2EInit /\ [][E2ENext]_vars

-----------------------------------------------------------------------------
(* Two callers of aws.py at once.  The functions take no lock and share     *)
(* nothing but the provider, so the steps of the two callers interleave     *)
(* freely: caller A runs terminate_instances("alice") while caller B runs   *)
(* create_instance("alice") and then register_dns for the new instance.     *)

\* the caller whose frame the variables pc, op, ... hold
Active == IF other.caller = "B" THEN "A" ELSE "B"

\* the caller that runs is suspended and the other one goes on
Switch ==
    /\ other' = [caller |-> Active, pc |-> pc, op |-> op, rd |-> rd,
                 zoneId |-> zoneId, request |-> request, instance |-> instance,
                 matching |-> matching, i |-> i, m |-> m,
                 calls |-> calls, hist |-> hist]
    /\ pc' = other.pc
    /\ op' = other.op
    /\ rd' = other.rd
    /\ zoneId' = other.zoneId
    /\ request' = other.request
    /\ instance' = other.instance
    /\ matching' = other.matching
    /\ i' = other.i
    /\ m' = other.m
    /\ calls' = other.calls
    /\ hist' = other.hist
    /\ UNCHANGED provider

ConcInit ==
    /\ ec2 \in {InitInstances0, InitInstances1}
    /\ zones = ZonesOne
    /\ changes = <<>>
    /\ dns = {}
    /\ InitCaller
    /\ PrestartupLoaded

ConcStart ==
    \/ /\ Active = "A" /\ hist = <<>>
       /\ StartTerminateInstances("alice")
       /\ Elsewhere
    \/ /\ Active = "B" /\ hist = <<>>
       /\ StartCreateInstance("alice")
       /\ Elsewhere
    \/ /\ Active = "B" /\ Len(hist) = 1 /\ hist[1].kind = "return"
       /\ StartRegisterDns("alice", TERMINATE_DOMAIN,
                           hist[1].value.instance.public_ip_address, FALSE)
       /\ Elsewhere

\* the steps of the three functions the two callers run
ConcStep ==
    \/ CreateInstances /\ Elsewhere
    \/ CreateWait /\ Elsewhere
    \/ CreateReload /\ Elsewhere
    \/ TerminateList /\ Elsewhere
    \/ TerminateSleep /\ Elsewhere
    \/ TerminateCall /\ Elsewhere
    \/ RegisterZones /\ Elsewhere
    \/ RegisterChange /\ Elsewhere
    \/ RegisterPoll /\ Elsewhere
    \/ ProviderError /\ Elsewhere

ConcNext ==
    \/ ConcStart
    \/ ConcStep
    \/ Provider
    \/ Switch /\ UNCHANGED prestartup

ConcSpec == ConcInit /\ [][ConcNext]_vars

-----------------------------------------------------------------------------
(* The process start: modules register their functions and the server runs  *)
(* startup_checks_and_init; nothing of aws.py is called.                    *)

PrestartupInit ==
    /\ ec2 = <<>>
    /\ zones = <<>>
    /\ changes = <<>>
    /\ dns = {}
    /\ InitCaller
    /\ PrestartupLoaded

PrestartupNext ==
    \/ \E check \in ModuleFunctions : register_startup_check(check)
    \/ \E init \in ModuleFunctions : register_init_function(init)
    \/ StartupBegin
    \/ RunCheck
    \/ RunInit

PrestartupSpec == PrestartupInit /\ [][PrestartupNext]_vars

-----------------------------------------------------------------------------
(* Vocabulary of the properties.  These definitions read the histories and  *)
(* are written without the operators of the functions above.               *)

Finished(name) == op.name = name /\ pc = "idle"
Returned(name) == Finished(name) /\ Last(hist).kind = "return"
Raised(name) == Finished(name) /\ Last(hist).kind = "raise"

\* positions of the log holding a call of the given api
Issued(api) == {n \in DOMAIN calls : calls[n].api = api}
Answered(api) == {n \in Issued(api) : calls[n].ok}

\* the provider's instances of a describe_instances answer, reservation by reservation
RECURSIVE Flat(_)
Flat(reservations) ==
    IF Len(reservations) = 0 THEN <<>>
    ELSE Flat(SubSeq(reservations, 1, Len(reservations) - 1))
            \o reservations[Len(reservations)].Instances

NameTag(inst) ==
    LET t == CHOOSE t \in Range(inst.Tags) : t.Key = "Name" IN t.Value

\* what the running terminate_instances call saw: the instances of its one
\* inventory answer that carry the name it was given
HasSnapshot ==
    /\ op.name = "terminate_instances"
    /\ calls # <<>> /\ calls[1].api = "describe_instances" /\ calls[1].ok
Snapshot == Flat(calls[1].res.Reservations)
SnapshotMatches == SelectSeq(Snapshot, LAMBDA x : NameTag(x) = op.args.name)

-----------------------------------------------------------------------------
(* Properties *)

\* C1: terminate_instances(name), called when no instance of the inventory has
\* tag Name = name, returns 0 and issues neither a DNS change call nor a
\* terminate-instances call to the provider.
C1_NoMatchNoProviderAction ==
    (HasSnapshot /\ SnapshotMatches = <<>>) =>
        /\ Issued("change_resource_record_sets") = {}
        /\ Issued("terminate_instances") = {}
        /\ Returned("terminate_instances") => Last(hist).value.count = 0

\* C2: register_dns with unregister=False returns True only after a get_change
\* poll on the change it submitted itself has reported INSYNC; with
\* unregister=True it returns True after submitting the change and without any
\* get_change call (also when terminate_instances calls it).
C2_UpsertWaitsDeleteDoesNot ==
    /\ Returned("register_dns") =>
          /\ Last(hist).value.bool = TRUE
          /\ Cardinality(Answered("change_resource_record_sets")) = 1
          /\ LET n == CHOOSE n \in Answered("change_resource_record_sets") : TRUE
                 own == calls[n].res.ChangeInfo.Id
             IN  IF op.args.unregister
                 THEN /\ Issued("get_change") = {}
                      /\ Last(calls).api = "change_resource_record_sets"
                 ELSE /\ Last(calls).api = "get_change"
                      /\ Last(calls).ok
                      /\ Last(calls).arg.Id = own
                      /\ Last(calls).res.ChangeInfo.Status = "INSYNC"
                      /\ changes[own].Status = "INSYNC"
    /\ op.name = "terminate_instances" => Issued("get_change") = {}

C2_Witness ==
    /\ Returned("register_dns")
    /\ ~op.args.unregister
    /\ Cardinality(Answered("get_change")) >= 2

\* C3: register_dns fails with the exception "Wrong number of hosted zones!"
\* whenever the zone lookup answers with a number of zones other than one (0 as
\* well as 2), in upsert and in delete mode, and then nothing follows the lookup:
\* no change_resource_record_sets call and no get_change call.
C3_WrongZoneCountRaises ==
    \A n \in Answered("list_hosted_zones_by_name") :
        Len(calls[n].res.HostedZones) # 1 =>
            /\ n = Len(calls)
            /\ pc = "idle"
            /\ Last(hist).kind = "raise"
            /\ Last(hist).value.message = "Wrong number of hosted zones!"
            /\ op.name = "register_dns" =>
                  /\ Issued("change_resource_record_sets") = {}
                  /\ Issued("get_change") = {}

C3_Witness ==
    /\ Raised("register_dns")
    /\ ~op.args.unregister
    /\ Last(calls).api = "list_hosted_zones_by_name"
    /\ Last(calls).ok /\ Len(Last(calls).res.HostedZones) = 2
    /\ Len(hist) = 2 /\ hist[1].op.name = "terminate_instances"
    /\ hist[1].kind = "raise"
    /\ hist[1].value.message = "Wrong number of hosted zones!"

\* C4: within one terminate_instances(name) call with at least one match the
\* calls come in a fixed order: the one inventory query, then the ten 1-second
\* sleeps, then the DNS deletes, then the terminate request.  No DNS call comes
\* before the tenth sleep, and the terminate request comes only after a DNS
\* delete has been submitted for every match, and nothing follows it.
C4_TerminateOrder ==
    (HasSnapshot /\ SnapshotMatches # <<>>) =>
        \A n \in DOMAIN calls :
            /\ calls[n].api = "describe_instances" <=> n = 1
            /\ calls[n].api = "sleep" <=> n \in 2..11
            /\ calls[n].api = "sleep" => calls[n].arg.seconds = 1
            /\ calls[n].api = "change_resource_record_sets" /\ calls[n].ok =>
                  calls[n].arg.ChangeBatch.Changes[1].Action = "DELETE"
            /\ calls[n].api = "terminate_instances" =>
                  /\ n = Len(calls)
                  /\ Cardinality(Answered("change_resource_record_sets"))
                        = Len(SnapshotMatches)

C4_Witness ==
    /\ Returned("terminate_instances")
    /\ HasSnapshot
    /\ Len(SnapshotMatches) = 2
    /\ Len(calls) = 16

\* C5: a terminate_instances(name) call that returns has submitted exactly one
\* terminate-instances request, its id list is exactly the ids of the snapshot
\* instances whose Name tag is name (duplicates included, in order, no others),
\* and it returns their number right after the request, without waiting for any
\* of them to be terminated.
C5_TerminateBatch ==
    Returned("terminate_instances") =>
        /\ HasSnapshot
        /\ Cardinality(Issued("terminate_instances")) = 1
        /\ Last(calls).api = "terminate_instances"
        /\ Last(calls).ok
        /\ Last(calls).arg.InstanceIds =
              [k \in DOMAIN SnapshotMatches |-> SnapshotMatches[k].InstanceId]
        /\ Last(hist).value.count = Len(SnapshotMatches)

C5_Witness ==
    /\ Returned("terminate_instances")
    /\ Last(hist).value.count = 2
    /\ Last(calls).arg.InstanceIds = <<1, 3>>
    /\ ec2[1].State = "shutting-down"

\* C6: every create_instance call that returns returns an instance in state
\* running with a public address that is not None.
C6_CreatedIsRunning ==
    Returned("create_instance") =>
        /\ Last(hist).value.instance.state = "running"
        /\ Last(hist).value.instance.public_ip_address # None
        /\ Last(hist).value.instance.instance_id = calls[1].res.instance_id

C6_Witness ==
    /\ Returned("create_instance")
    /\ Last(hist).op.args.name = "alice"
    /\ Last(hist).value.instance.public_ip_address = "198.51.100.2"

\* C8: list_instances returns one summary for each instance of the provider's
\* answer to the deploy-group filter, reservation after reservation in the
\* provider's order, whatever the instance's state; the address of a summary is
\* the provider's public address when there is one and the literal
\* "--.--.--.--" when there is none, never None.
C8_ListInstances ==
    Returned("list_instances") =>
        LET provided == Flat(calls[1].res.Reservations)
            summary == Last(hist).value.summary
        IN  /\ calls[1].arg.Filters =
                  << [Name |-> "tag:deploy-group", Values |-> <<"learning-observer">>] >>
            /\ Len(summary) = Len(provided)
            /\ \A k \in DOMAIN summary :
                  /\ summary[k].InstanceId = provided[k].InstanceId
                  /\ summary[k].Tags["Name"] = NameTag(provided[k])
                  /\ summary[k].PublicIpAddress # None
                  /\ summary[k].PublicIpAddress =
                        IF provided[k].PublicIpAddress = Absent
                        THEN "--.--.--.--"
                        ELSE provided[k].PublicIpAddress

C8_Witness ==
    /\ Returned("list_instances")
    /\ Len(calls[1].res.Reservations) = 2
    /\ Len(Last(hist).value.summary) = 3
    /\ Last(hist).value.summary[1].InstanceId = 2
    /\ Last(hist).value.summary[1].PublicIpAddress = "--.--.--.--"
    /\ Last(hist).value.summary[2].PublicIpAddress = "198.51.100.1"

\* the record names of the model's subdomains and domains, written out
FQDN ==
    [s \in {"alice", "dup", "ghost"} |->
        [d \in {"example.org", "learning-observer.org"} |->
            CASE s = "alice" /\ d = "example.org" -> "alice.example.org."
              [] s = "alice" /\ d = "learning-observer.org" -> "alice.learning-observer.org."
              [] s = "dup" /\ d = "example.org" -> "dup.example.org."
              [] s = "dup" /\ d = "learning-observer.org" -> "dup.learning-observer.org."
              [] s = "ghost" /\ d = "example.org" -> "ghost.example.org."
              [] s = "ghost" /\ d = "learning-observer.org" -> "ghost.learning-observer.org."]]

ZonesNamed(domain) == {z \in Range(zones) : z.Name = domain}

\* C9: every register_dns call that passes zone resolution submits exactly one
\* change_resource_record_sets request, to the one hosted zone of the domain,
\* holding exactly one change: UPSERT exactly when unregister is false and
\* DELETE otherwise, type A, TTL 15, name "<subdomain>.<domain>." with the
\* trailing dot and the given address as its only value.  The request follows
\* the zone lookup at once, and no call changes a second hosted zone.
C9_SingleChange ==
    /\ \A n \in Answered("change_resource_record_sets") :
          LET a == calls[n].arg
              c == a.ChangeBatch.Changes
              domain == IF op.name = "register_dns" THEN op.args.domain
                        ELSE "learning-observer.org"
          IN  /\ n > 1
              /\ calls[n - 1].api = "list_hosted_zones_by_name"
              /\ calls[n - 1].ok /\ Len(calls[n - 1].res.HostedZones) = 1
              /\ ZonesNamed(domain) = {z \in Range(zones) : z.Id = a.HostedZoneId}
              /\ Cardinality(ZonesNamed(domain)) = 1
              /\ changes[calls[n].res.ChangeInfo.Id].HostedZoneId = a.HostedZoneId
              /\ changes[calls[n].res.ChangeInfo.Id].ChangeBatch = a.ChangeBatch
              /\ Len(c) = 1
              /\ c[1].ResourceRecordSet.Type = "A"
              /\ c[1].ResourceRecordSet.TTL = 15
              /\ Len(c[1].ResourceRecordSet.ResourceRecords) = 1
              /\ IF op.name = "register_dns"
                 THEN /\ c[1].Action = IF op.args.unregister THEN "DELETE" ELSE "UPSERT"
                      /\ c[1].ResourceRecordSet.Name = FQDN[op.args.subdomain][domain]
                      /\ c[1].ResourceRecordSet.ResourceRecords
                            = << [Value |-> op.args.ip] >>
                 ELSE /\ c[1].Action = "DELETE"
                      /\ c[1].ResourceRecordSet.Name = FQDN[op.args.name][domain]
    /\ \A n \in Answered("list_hosted_zones_by_name") :
          (Len(calls[n].res.HostedZones) = 1 /\ n < Len(calls)) =>
              calls[n + 1].api = "change_resource_record_sets"
    /\ op.name = "register_dns" =>
          Cardinality(Issued("change_resource_record_sets")) <= 1
    /\ Returned("register_dns") =>
          Cardinality(Answered("change_resource_record_sets")) = 1

C9_Witness ==
    /\ Returned("register_dns")
    /\ op.args.unregister
    /\ Len(hist) = 2
    /\ hist[1].op.name = "register_dns"
    /\ hist[1].kind = "return"
    /\ ~hist[1].op.args.unregister
    /\ Len(changes) = 2
    /\ dns = {}

\* C7: run one after the other from an inventory without "alice":
\* create_instance("alice") returns; list_instances shows exactly one entry
\* with tag Name = alice, with a real address; register_dns("alice",
\* "example.org", address) returns True after polling; terminate_instances(
\* "alice") returns 1, issues a DNS delete for the record name
\* "alice.example.org." (the record that was registered) and submits one
\* terminate request holding alice's instance id.
C7_EndToEnd ==
    /\ (Len(hist) = 3 /\ pc = "idle" /\ \A k \in 1..3 : hist[k].kind = "return") =>
          /\ Last(calls).api = "get_change"
          /\ Last(calls).res.ChangeInfo.Status = "INSYNC"
          /\ hist[3].value.bool = TRUE
    /\ (Len(hist) = 4 /\ \A k \in 1..4 : hist[k].kind = "return") =>
          LET created == hist[1].value.instance
              listed == hist[2].value.summary
              alices == {k \in DOMAIN listed : listed[k].Tags["Name"] = "alice"}
          IN  /\ Cardinality(alices) = 1
              /\ \A k \in alices :
                    /\ listed[k].InstanceId = created.instance_id
                    /\ listed[k].PublicIpAddress = created.public_ip_address
                    /\ listed[k].PublicIpAddress # "--.--.--.--"
              /\ hist[4].value.count = 1
              /\ \E n \in Answered("change_resource_record_sets") :
                    LET c == calls[n].arg.ChangeBatch.Changes[1]
                    IN  /\ c.Action = "DELETE"
                        /\ c.ResourceRecordSet.Name = "alice.example.org."
              /\ Cardinality(Issued("terminate_instances")) = 1
              /\ Last(calls).arg.InstanceIds = << created.instance_id >>

Polling == pc = "get_change"

\* C10: register_dns in upsert mode polls once a second without a retry bound.
\* Under LiveSpec (the provider propagates the change) a polling call comes to
\* an end; it leaves the loop only by returning True after a poll that
\* reported INSYNC (or by an exception of the provider call itself), so while
\* the provider reports PENDING it neither returns nor raises; the next poll is
\* always possible, sleeps one second first, and asks for the same change id.
C10_PollUntilInSync ==
    /\ Polling ~> ~Polling
    /\ [][(Polling /\ ~Polling') =>
            \/ /\ pc' = "idle"
               /\ Last(hist').kind = "return"
               /\ Last(hist').value.bool = TRUE
               /\ Last(calls').api = "get_change"
               /\ Last(calls').res.ChangeInfo.Status = "INSYNC"
               /\ Last(calls').arg.Id = request.ChangeInfo.Id
               /\ changes[request.ChangeInfo.Id].Status = "INSYNC"
            \/ /\ pc' = "idle"
               /\ Last(hist').kind = "raise"
               /\ ~Last(calls').ok]_vars
    /\ [][(Polling /\ Polling') =>
            request'.ChangeInfo.Id = request.ChangeInfo.Id]_vars
    /\ [](Polling => ENABLED RegisterPoll)
    /\ [](\A n \in Answered("get_change") :
            /\ n > 1
            /\ calls[n - 1].api = "sleep"
            /\ calls[n - 1].arg.seconds = 1)

C10_Witness ==
    /\ Polling
    /\ Cardinality(Answered("get_change")) >= 2
    /\ request.ChangeInfo.Status = "PENDING"
    /\ changes[request.ChangeInfo.Id].Status = "PENDING"

\* the finished call before the last one
Previous == hist[Len(hist) - 1]

\* two register_dns calls in succession, upsert mode, same arguments, the first
\* of which returned; the second has just finished
TwiceUpsert ==
    /\ pc = "idle"
    /\ Len(hist) >= 2
    /\ Previous.op.name = "register_dns"
    /\ Last(hist).op = Previous.op
    /\ ~Previous.op.args.unregister
    /\ Previous.kind = "return"

\* C11: register_dns in upsert mode, called twice in succession with the same
\* subdomain, domain and address: the repetition is not an error (the second
\* call fails only if a provider call itself fails), both calls return True,
\* each submits a change of its own, and the second returns only after a poll
\* of its own, second, change reported INSYNC, although the first change is
\* INSYNC all along.
C11_UpsertTwice ==
    TwiceUpsert =>
        /\ Previous.value.bool = TRUE
        /\ Last(hist).kind = "raise" =>
              /\ Last(hist).value.message = "ProviderError"
              /\ ~Last(calls).ok
        /\ Last(hist).kind = "return" =>
              LET second == Len(changes)
                  first == Len(changes) - 1
              IN  /\ Last(hist).value.bool = TRUE
                  /\ first >= 1
                  /\ changes[first].Status = "INSYNC"
                  /\ changes[first].ChangeBatch.Changes[1].Action = "UPSERT"
                  /\ changes[second].ChangeBatch = changes[first].ChangeBatch
                  /\ \E n \in Answered("change_resource_record_sets") :
                        calls[n].res.ChangeInfo.Id = second
                  /\ Answered("get_change") # {}
                  /\ \A n \in Answered("get_change") : calls[n].arg.Id = second
                  /\ Last(calls).api = "get_change"
                  /\ Last(calls).res.ChangeInfo.Status = "INSYNC"
                  /\ changes[second].Status = "INSYNC"

C11_Witness ==
    /\ TwiceUpsert
    /\ Last(hist).kind = "return"
    /\ Len(changes) = 2
    /\ Cardinality(Answered("get_change")) >= 2
    /\ calls[Len(calls) - 2].res.ChangeInfo.Status = "PENDING"

GroupTag(inst) ==
    LET t == CHOOSE t \in Range(inst.Tags) : t.Key = "deploy-group" IN t.Value

\* the provider's instances of this deployment that carry the name
Named(name) ==
    {n \in DOMAIN ec2 : NameTag(ec2[n]) = name /\ GroupTag(ec2[n]) = "learning-observer"}

\* the record set a change of the log names
RecordOf(call) ==
    LET rrs == call.arg.ChangeBatch.Changes[1].ResourceRecordSet
    IN  [Zone |-> call.arg.HostedZoneId, Name |-> rrs.Name, Type |-> rrs.Type,
         TTL |-> rrs.TTL, Values |-> rrs.ResourceRecords]

\* C12: terminate_instances does not compensate a partial failure.  When every
\* DNS delete has succeeded and the terminate request then fails, the error
\* reaches the caller, no upsert is issued (the records stay deleted), the
\* matched instances that were live are still live (none is shutting down or
\* terminated that was not so before), and a list_instances call made afterwards still reports every matched instance.
C12_NoCompensation ==
    /\ (HasSnapshot /\ Raised("terminate_instances")
            /\ Last(calls).api = "terminate_instances") =>
          /\ ~Last(calls).ok
          /\ Last(hist).value.message = "ProviderError"
          /\ Cardinality(Issued("terminate_instances")) = 1
          /\ Cardinality(Answered("change_resource_record_sets")) = Len(SnapshotMatches)
          /\ \A n \in Answered("change_resource_record_sets") :
                /\ calls[n].arg.ChangeBatch.Changes[1].Action = "DELETE"
                /\ RecordOf(calls[n]) \notin dns
          /\ \A k \in DOMAIN SnapshotMatches :
                LET was == SnapshotMatches[k].State
                    now == ec2[SnapshotMatches[k].InstanceId].State
                IN  now \in {"shutting-down", "terminated"} =>
                        was \in {"shutting-down", "terminated"}
    /\ (/\ Len(hist) = 2
        /\ pc = "idle"
        /\ hist[1].op.name = "terminate_instances"
        /\ hist[1].kind = "raise"
        /\ hist[1].value.message = "ProviderError"
        /\ Named(hist[1].op.args.name) # {}
        /\ Len(changes) = Cardinality(Named(hist[1].op.args.name))
        /\ hist[2].op.name = "list_instances"
        /\ hist[2].kind = "return") =>
          /\ \A c \in DOMAIN changes : changes[c].ChangeBatch.Changes[1].Action = "DELETE"
          /\ \A n \in Named(hist[1].op.args.name) :
                \E k \in DOMAIN hist[2].value.summary :
                    /\ hist[2].value.summary[k].InstanceId = n
                    /\ hist[2].value.summary[k].Tags["Name"] = hist[1].op.args.name

C12_Witness ==
    /\ Len(hist) = 2
    /\ hist[1].op.name = "terminate_instances"
    /\ hist[1].op.args.name = "dup"
    /\ hist[1].kind = "raise"
    /\ Len(changes) = 2
    /\ hist[2].op.name = "list_instances"
    /\ hist[2].kind = "return"
    /\ Len(hist[2].value.summary) = 3
    /\ ec2[1].State = "running"
    /\ dns = {}

\* the functions other than terminate_instances
NonTerminating == {"list_instances", "name_to_group", "register_dns", "create_instance"}

\* a step of the caller, as against a step of the provider
CallerStep == calls' # calls \/ pc' # pc \/ op' # op

\* C13: the state of an instance changes towards Terminated only through
\* terminate_instances.  list_instances, name_to_group, register_dns and
\* create_instance never issue a terminate request and their steps leave every
\* existing instance as it is; list_instances (and name_to_group, which calls
\* it) issue no provider call but the inventory query and change nothing at the
\* provider.  An instance starts shutting down only in the step in which
\* terminate_instances has its terminate request, naming that instance,
\* accepted.
C13_OnlyTerminateTerminates ==
    /\ [](op.name \in NonTerminating => Issued("terminate_instances") = {})
    /\ [](op.name \in {"list_instances", "name_to_group"} =>
            \A n \in DOMAIN calls : calls[n].api = "describe_instances")
    /\ [][(op'.name \in NonTerminating /\ CallerStep) =>
            \A n \in DOMAIN ec2 : ec2'[n] = ec2[n]]_vars
    /\ [][(op'.name \in {"list_instances", "name_to_group"} /\ CallerStep) =>
            (ec2' = ec2 /\ zones' = zones /\ changes' = changes /\ dns' = dns)]_vars
    /\ [][\A n \in DOMAIN ec2 :
            ec2'[n].State # ec2[n].State =>
               \/ /\ ~CallerStep
                  /\ ec2[n].State = "pending" /\ ec2'[n].State = "running"
               \/ /\ ~CallerStep
                  /\ ec2[n].State = "shutting-down" /\ ec2'[n].State = "terminated"
               \/ /\ ec2'[n].State = "shutting-down"
                  /\ op.name = "terminate_instances"
                  /\ calls' # <<>>
                  /\ Last(calls').api = "terminate_instances"
                  /\ Last(calls').ok
                  /\ n \in Range(Last(calls').arg.InstanceIds)]_vars

C13_Witness ==
    /\ Len(hist) = 2
    /\ hist[1].op.name = "terminate_instances"
    /\ hist[1].kind = "return"
    /\ hist[2].op.name = "name_to_group"
    /\ hist[2].kind = "return"
    /\ hist[2].value.pool = "--.--.--.-- --.--.--.--"
    /\ ec2[1].State = "terminated"
    /\ ec2[3].State = "shutting-down"

\* C14: register_startup_check and register_init_function raise StartupCheck
\* and register nothing whenever they are called after startup_checks_and_init
\* has run to completion; before that they append the function to their
\* registry without raising.
C14_RegistrationClosedAfterStartup ==
    /\ \A n \in DOMAIN regs :
          regs[n].kind = IF regs[n].after THEN "raise" ELSE "return"
    /\ Len(STARTUP_CHECKS) + Len(INIT_FUNCTIONS) =
          5 + Cardinality({n \in DOMAIN regs : ~regs[n].after})

\* the functions registered so far in one of the registries, in the order of
\* their registration
RECURSIVE RegisteredIn(_, _)
RegisteredIn(into, n) ==
    IF n = 0 THEN <<>>
    ELSE RegisteredIn(into, n - 1) \o
            (IF regs[n].into = into /\ regs[n].kind = "return"
             THEN << regs[n].fn >> ELSE <<>>)

ChecksInOrder ==
    << "make_blank_dirs", "validate_teacher_list", "validate_config_file",
       "download_3rd_party_static", "check_aio_session_settings" >>
        \o RegisteredIn("STARTUP_CHECKS", Len(regs))
InitsInOrder == RegisteredIn("INIT_FUNCTIONS", Len(regs))

\* a log of called functions follows the order: checks first, then inits, each
\* list in registration order, and nothing is called after a raise
InOrder(log, checks, inits) ==
    /\ Len(log) <= Len(checks) + Len(inits)
    /\ \A n \in DOMAIN log :
          /\ log[n].fn = (checks \o inits)[n]
          /\ log[n].list = IF n <= Len(checks) THEN "STARTUP_CHECKS" ELSE "INIT_FUNCTIONS"
          /\ log[n].outcome = "raise" => n = Len(log)

\* C19: startup_checks_and_init calls every registered startup check, in
\* registration order, before any registered init function, and then every
\* init function in registration order; when a check raises the exception
\* ends the call, no later check is called and no init function is called.
C19_StartupOrder ==
    /\ spc # "idle" => InOrder(ran, ChecksInOrder, InitsInOrder)
    /\ spc # "idle" => \A n \in DOMAIN ran : ran[n].outcome = "return"
    /\ spc = "inits" => Len(ran) >= Len(ChecksInOrder)
    /\ \A s \in DOMAIN startups :
          /\ InOrder(startups[s].ran, startups[s].checks, startups[s].inits)
          /\ startups[s].kind = "return" =>
                /\ Len(startups[s].ran) = Len(startups[s].checks) + Len(startups[s].inits)
                /\ \A n \in DOMAIN startups[s].ran : startups[s].ran[n].outcome = "return"
          /\ startups[s].kind = "raise" =>
                /\ startups[s].ran # <<>>
                /\ Last(startups[s].ran).outcome = "raise"
                /\ Last(startups[s].ran).list = "STARTUP_CHECKS" =>
                      \A n \in DOMAIN startups[s].ran :
                          startups[s].ran[n].list = "STARTUP_CHECKS"
    /\ STARTUP_CHECKS = ChecksInOrder
    /\ INIT_FUNCTIONS = InitsInOrder
    /\ \A s \in DOMAIN startups :
          /\ startups[s].checks = SubSeq(ChecksInOrder, 1, Len(startups[s].checks))
          /\ startups[s].inits = SubSeq(InitsInOrder, 1, Len(startups[s].inits))

C19_Witness ==
    /\ Len(startups) = 2
    /\ startups[1].kind = "return"
    /\ Len(startups[1].ran) = 7
    /\ startups[1].ran[6].fn = "module_g"
    /\ startups[1].ran[6].list = "STARTUP_CHECKS"
    /\ startups[1].ran[7].fn = "module_f"
    /\ startups[1].ran[7].list = "INIT_FUNCTIONS"
    /\ startups[2].kind = "raise"
    /\ Len(startups[2].ran) = 3
    /\ startups[2].inits = << "module_f" >>

\* the place of an accepted change among the accepted changes of the log
Rank(n) == Cardinality({j \in Answered("change_resource_record_sets") : j <= n})

\* C15: terminate_instances(name) submits exactly one DNS DELETE per matching
\* instance of its snapshot, in the snapshot's order, each for the record name
\* "<name>.learning-observer.org." with the snapshot address of that instance
\* as its value: k matches of one name give k DELETEs of the same record name,
\* and a match without an address gives a DELETE of the value "--.--.--.--".
C15_DeletePerMatch ==
    HasSnapshot =>
        /\ Cardinality(Answered("change_resource_record_sets")) <= Len(SnapshotMatches)
        /\ Issued("terminate_instances") # {} =>
              Cardinality(Answered("change_resource_record_sets")) = Len(SnapshotMatches)
        /\ \A n \in Answered("change_resource_record_sets") :
              LET c == calls[n].arg.ChangeBatch.Changes
                  match == SnapshotMatches[Rank(n)]
              IN  /\ Len(c) = 1
                  /\ c[1].Action = "DELETE"
                  /\ c[1].ResourceRecordSet.Name =
                        FQDN[op.args.name]["learning-observer.org"]
                  /\ c[1].ResourceRecordSet.ResourceRecords =
                        << [Value |-> IF match.PublicIpAddress = Absent
                                      THEN "--.--.--.--"
                                      ELSE match.PublicIpAddress] >>

C15_Witness ==
    /\ Returned("terminate_instances")
    /\ op.args.name = "dup"
    /\ Len(changes) = 2
    /\ \A c \in 1..2 :
          changes[c].ChangeBatch.Changes[1].ResourceRecordSet.Name
              = "dup.learning-observer.org."
    /\ changes[1].ChangeBatch.Changes[1].ResourceRecordSet.ResourceRecords
          = << [Value |-> "198.51.100.1"] >>
    /\ changes[2].ChangeBatch.Changes[1].ResourceRecordSet.ResourceRecords
          = << [Value |-> "--.--.--.--"] >>

\* two terminate_instances calls in succession for one name, the first of
\* which returned; the second has just finished
TwiceTerminate ==
    /\ pc = "idle"
    /\ Len(hist) >= 2
    /\ Previous.op.name = "terminate_instances"
    /\ Last(hist).op = Previous.op
    /\ Previous.kind = "return"

\* C17: the inventory is not filtered by state, so terminate_instances is not
\* idempotent.  A second terminate_instances(name) that returns after a first
\* one, the provider still listing the instances the first one terminated,
\* returns the same count again (positive when there was a match), has again
\* submitted one DNS delete per listed instance, and has again submitted a
\* terminate request for the same ids.
C17_TerminateTwice ==
    (TwiceTerminate /\ Last(hist).kind = "return") =>
        /\ Last(hist).value.count = Previous.value.count
        /\ Last(hist).value.count = Cardinality(Named(op.args.name))
        /\ Cardinality(Answered("change_resource_record_sets")) = Previous.value.count
        /\ \A n \in Answered("change_resource_record_sets") :
              calls[n].arg.ChangeBatch.Changes[1].Action = "DELETE"
        /\ Cardinality(Answered("terminate_instances")) = 1
        /\ Range(Last(calls).arg.InstanceIds) = Named(op.args.name)
        /\ Len(Last(calls).arg.InstanceIds) = Previous.value.count
        /\ \A n \in Named(op.args.name) :
              ec2[n].State \in {"shutting-down", "terminated"}

C17_Witness ==
    /\ TwiceTerminate
    /\ Last(hist).kind = "return"
    /\ Previous.value.count = 2
    /\ Last(hist).value.count = 2
    /\ Last(calls).arg.InstanceIds = <<1, 3>>
    /\ SnapshotMatches[1].State = "terminated"
    /\ SnapshotMatches[2].State = "shutting-down"
    /\ Len(changes) = 4

\* the DNS calls of the log that did not succeed: a provider call that raised,
\* or a zone lookup that did not answer exactly one zone
FailedDns ==
    {n \in DOMAIN calls :
        /\ calls[n].api \in {"list_hosted_zones_by_name", "change_resource_record_sets"}
        /\ \/ ~calls[n].ok
           \/ /\ calls[n].api = "list_hosted_zones_by_name"
              /\ Len(calls[n].res.HostedZones) # 1}

\* C18: when a DNS delete inside terminate_instances fails (a provider call
\* raises, or the zone lookup finds 0 or 2 zones), the error ends the call and
\* reaches the caller: nothing follows the failed call, so no terminate request
\* is submitted and every matched instance that was live stays live, no delete
\* is attempted for the remaining matches, and the deletes accepted for earlier
\* matches are not undone (no upsert follows them).
C18_DnsFailureStops ==
    HasSnapshot =>
        \A n \in FailedDns :
            /\ n = Len(calls)
            /\ Raised("terminate_instances")
            /\ Last(hist).value.message =
                  IF calls[n].ok THEN "Wrong number of hosted zones!" ELSE "ProviderError"
            /\ Issued("terminate_instances") = {}
            /\ Cardinality(Answered("change_resource_record_sets")) < Len(SnapshotMatches)
            /\ \A c \in Answered("change_resource_record_sets") :
                  /\ calls[c].arg.ChangeBatch.Changes[1].Action = "DELETE"
                  /\ RecordOf(calls[c]) \notin dns
                  /\ changes[calls[c].res.ChangeInfo.Id].ChangeBatch = calls[c].arg.ChangeBatch
            /\ \A k \in DOMAIN SnapshotMatches :
                  LET was == SnapshotMatches[k].State
                      now == ec2[SnapshotMatches[k].InstanceId].State
                  IN  now \in {"shutting-down", "terminated"} =>
                          was \in {"shutting-down", "terminated"}

C18_Witness ==
    /\ Raised("terminate_instances")
    /\ HasSnapshot
    /\ Len(SnapshotMatches) = 2
    /\ Cardinality(Answered("change_resource_record_sets")) = 1
    /\ Last(calls).api = "change_resource_record_sets"
    /\ ~Last(calls).ok
    /\ Len(changes) = 1
    /\ ec2[1].State = "running"
    /\ ec2[3].State = "stopped"
    /\ dns = {}

\* the call log and the finished calls of one of the two callers
CallsOf(caller) == IF Active = caller THEN calls ELSE other.calls
HistOf(caller) == IF Active = caller THEN hist ELSE other.hist

\* what caller A's terminate_instances("alice") saw in its inventory answer
SnapshotOfA ==
    SelectSeq(Flat(CallsOf("A")[1].res.Reservations), LAMBDA x : NameTag(x) = "alice")
SnapshotIdsOfA == {SnapshotOfA[k].InstanceId : k \in DOMAIN SnapshotOfA}

\* positions in the provider's change log of the accepted changes for a record name
ChangesOf(action, name) ==
    {c \in DOMAIN changes :
        /\ changes[c].ChangeBatch.Changes[1].Action = action
        /\ changes[c].ChangeBatch.Changes[1].ResourceRecordSet.Name = name}

====
